---- MODULE Spec2Model ----
(***************************************************************************)
(* Model of src/wrapper.js: the zenroom builder.  The module-level object  *)
(* `self`, the three slots of the engine binding C (C.print, C.exec_ok,    *)
(* C.exec_error) and the foreign call C.ccall('zenroom_exec', ...) are the *)
(* state; every public method is an operator on that state and an action.  *)
(***************************************************************************)
EXTENDS Naturals, Sequences, FiniteSets, TLC

\* ------------------------------------------------------------------ bounds
MaxSteps == 3

\* ------------------------------------------------------- JavaScript values
\* A value is a record [t |-> type tag, v |-> payload text].
Undefined == [t |-> "undefined", v |-> ""]
Null == [t |-> "null", v |-> ""]
Str(s) == [t |-> "string", v |-> s]
Num(s) == [t |-> "number", v |-> s]
Obj(json) == [t |-> "object", v |-> json]
Fn(name) == [t |-> "function", v |-> name]

\* ToBoolean, as applied by `||` and `?:`
Truthy(x) ==
  /\ x.t \notin {"undefined", "null"}
  /\ ~(x.t = "string" /\ x.v = "")
  /\ ~(x.t = "number" /\ x.v = "0")

\* a || b
Or(a, b) == IF Truthy(a) THEN a ELSE b

\* JSON.stringify(x): the JSON text of x, a string
JSONstringify(x) ==
  CASE x.t = "object" -> Str(x.v)
    [] x.t = "string" -> Str("\"" \o x.v \o "\"")
    [] x.t = "number" -> Str(x.v)
    [] x.t = "null" -> Str("null")
    [] OTHER -> Undefined

\* the hooks the code creates itself
ConsoleLog == Fn("text => console.log(text)")
Noop == Fn("() => {}")
\* text => self.print(text): looks self.print up when it is called
PrintWrapper == Fn("text => self.print(text)")

\* ------------------------------------------------------------------ objects
Fields == {"zencode", "keys", "conf", "data", "print", "success", "error", "verbosity"}
PayloadFields == {"zencode", "conf", "keys", "data", "verbosity"}

\* {}
EmptyObj == [k \in {} |-> Undefined]
\* o.k, undefined when o has no property k
Get(o, k) == IF k \in DOMAIN o THEN o[k] ELSE Undefined
\* an assignment in place of the merge
ObjectAssign_replace(target, source) == source

\* Object.assign(target, source)
ObjectAssign(target, source) ==
  [k \in (DOMAIN target) \cup (DOMAIN source) |->
     IF k \in DOMAIN source THEN source[k] ELSE target[k]]

\* self = {}; self.options = {}
EmptySelf ==
  [options |-> EmptyObj, zencode |-> Undefined, keys |-> Undefined,
   conf |-> Undefined, data |-> Undefined, print |-> Undefined,
   success |-> Undefined, error |-> Undefined, verbosity |-> Undefined]

\* the arguments of the last foreign call; NoArg before the first one
NoArg == [t |-> "nocall", v |-> ""]
NoCall == [zencode |-> NoArg, conf |-> NoArg, keys |-> NoArg, data |-> NoArg, verbosity |-> NoArg]

VARIABLES
  self,     \* the module-level object `self`
  C,        \* the engine binding's hook slots: print, exec_ok, exec_error
  ffi,      \* C.ccall: [count: calls issued, args: arguments of the last one]
  pending,  \* executions issued and not yet completed: hooks registered at issue
  invoked,  \* the last hook the engine invoked
  lastOp,   \* the last operation
  resets,   \* reset() calls in a row just made by the caller
  lastCfg,  \* the last operation that configures: construct, reset, setter, init
  lastSet,  \* per field, the argument of the last individual setter call
  lastOpt,  \* per field, the value of the last init options object holding it
  nExec,    \* exec() invocations
  returned, \* what the last public method call returned
  steps     \* caller operations so far

vars == <<self, C, ffi, pending, invoked, lastOp, resets, lastCfg, lastSet, lastOpt, nExec, returned, steps>>

\* the program's state, as the operators below transform it
World == [self |-> self, C |-> C, ffi |-> ffi]

\* --------------------------------------------------------------- the bridge
\* default parameter: `= dflt` applies when the argument is undefined
Param(a, dflt) == IF a = Undefined THEN dflt ELSE a

zenroomExec(w, zencode_, conf_, keys_, data_, verbosity_) ==
  [w EXCEPT !.ffi = [count |-> @.count + 1,
                     args |-> [zencode |-> zencode_,
                               conf |-> Param(conf_, Null),
                               keys |-> Param(keys_, Null),
                               data |-> Param(data_, Null),
                               verbosity |-> Param(verbosity_, Num("1"))]]]

\* ------------------------------------------------------------------ setters
zencode(w, v) == [w EXCEPT !.self.zencode = v]

keys(w, v) == [w EXCEPT !.self.keys = IF Truthy(v) THEN JSONstringify(v) ELSE Null]

\* conf() that keeps a value already set
conf_keepFirst(w, v) == IF w.self.conf = Undefined THEN [w EXCEPT !.self.conf = v] ELSE w

conf(w, v) == [w EXCEPT !.self.conf = v]

data(w, v) == [w EXCEPT !.self.data = v]

print(w, printFunction) ==
  [w EXCEPT !.self.print = printFunction, !.C.print = PrintWrapper]

\* success() that writes the failure slot as well
success_bothSlots(w, success_callback) ==
  [w EXCEPT !.self.success = success_callback, !.C.exec_ok = success_callback,
            !.C.exec_error = success_callback]

\* success() that leaves the registry for later
success_deferred(w, success_callback) == [w EXCEPT !.self.success = success_callback]

success(w, success_callback) ==
  [w EXCEPT !.self.success = success_callback, !.C.exec_ok = success_callback]

\* error() that leaves the registry for later
error_deferred(w, error_callback) == [w EXCEPT !.self.error = error_callback]

error(w, error_callback) ==
  [w EXCEPT !.self.error = error_callback, !.C.exec_error = error_callback]

verbosity(w, v) == [w EXCEPT !.self.verbosity = v]

\* exec() that forgets the script once it is dispatched
exec_consume(w) ==
  [zenroomExec(w, w.self.zencode, w.self.conf, w.self.keys, w.self.data, w.self.verbosity)
     EXCEPT !.self.zencode = Undefined]

\* exec() that returns early when no script is set
exec_guarded(w) ==
  IF Truthy(w.self.zencode)
    THEN zenroomExec(w, w.self.zencode, w.self.conf, w.self.keys, w.self.data, w.self.verbosity)
    ELSE w

exec(w) ==
  zenroomExec(w, w.self.zencode, w.self.conf, w.self.keys, w.self.data, w.self.verbosity)

\* init() that calls only the setters of the options the store holds
init_presentOnly(w, options) ==
  LET w0 == [w EXCEPT !.self.options = ObjectAssign(@, options)]
      has(f) == f \in DOMAIN w0.self.options
      w1 == IF has("zencode") THEN zencode(w0, Or(Get(w0.self.options, "zencode"), Str(""))) ELSE w0
      w2 == IF has("keys") THEN keys(w1, Or(Get(w0.self.options, "keys"), Null)) ELSE w1
      w3 == IF has("conf") THEN conf(w2, Or(Get(w0.self.options, "conf"), Null)) ELSE w2
      w4 == IF has("data") THEN data(w3, Or(Get(w0.self.options, "data"), Null)) ELSE w3
      w5 == IF has("print") THEN print(w4, Or(Get(w0.self.options, "print"), ConsoleLog)) ELSE w4
      w6 == IF has("success") THEN success(w5, Or(Get(w0.self.options, "success"), Noop)) ELSE w5
      w7 == IF has("error") THEN error(w6, Or(Get(w0.self.options, "error"), Noop)) ELSE w6
  IN  IF has("verbosity") THEN verbosity(w7, Or(Get(w0.self.options, "verbosity"), Num("1"))) ELSE w7

\* self.options is assigned once, at line 306; lines 308-315 read that store
init(w, options) ==
  LET w0 == [w EXCEPT !.self.options = ObjectAssign(@, options)]
      store == w0.self.options
      w1 == zencode(w0, Or(Get(store, "zencode"), Str("")))
      w2 == keys(w1, Or(Get(store, "keys"), Null))
      w3 == conf(w2, Or(Get(store, "conf"), Null))
      w4 == data(w3, Or(Get(store, "data"), Null))
      w5 == print(w4, Or(Get(store, "print"), ConsoleLog))
      w6 == success(w5, Or(Get(store, "success"), Noop))
      w7 == error(w6, Or(Get(store, "error"), Noop))
  IN  verbosity(w7, Or(Get(store, "verbosity"), Num("1")))

__setup(w) ==
  LET w1 == print(w, Or(w.self.print, ConsoleLog))
      w2 == success(w1, Or(w1.self.success, Noop))
  IN  error(w2, Or(w2.self.error, Noop))

\* reset() that keeps the options store
reset_keepOptions(w) == __setup([w EXCEPT !.self = [EmptySelf EXCEPT !.options = w.self.options]])

\* reset() that restores the hooks and the store and keeps the payload fields
reset_hooksOnly(w) ==
  __setup([w EXCEPT !.self.options = EmptyObj, !.self.print = Undefined,
                    !.self.success = Undefined, !.self.error = Undefined])

\* reset() that does not empty self
reset_keepSelf(w) == __setup([w EXCEPT !.self.options = EmptyObj])

\* reset() that reinstalls the hooks before it empties self
reset_setupFirst(w) == [__setup(w) EXCEPT !.self = EmptySelf]

reset(w) == __setup([w EXCEPT !.self = EmptySelf])

\* ------------------------------------------------------------------- engine
\* the function that runs when the engine calls C.print(text)
PrintTarget(w) == IF w.C.print = PrintWrapper THEN w.self.print ELSE w.C.print

NoEvent == [kind |-> "none", hook |-> Undefined, issued |-> Undefined]

\* -------------------------------------------------------------------- inputs
InputOf(f) ==
  CASE f = "zencode" -> {Str(""), Str("A")}
    [] f = "keys" -> {Null, Obj("{\"a\":1}")}
    [] f = "conf" -> {Str(""), Str("umm")}
    [] f = "data" -> {Str(""), Str("D"), Obj("{\"a\":1}")}
    [] f = "verbosity" -> {Num("0"), Num("2")}
    [] f = "print" -> {Fn("p")}
    [] f = "success" -> {Fn("f"), Fn("g")}
    [] f = "error" -> {Fn("e")}

AllInputs == UNION {InputOf(f) : f \in Fields}

\* the property sets of the options objects given to init: none, one field,
\* and the three fields of the documented example (zencode, keys, data)
OptionShapes == {{}} \cup {{f} : f \in Fields} \cup {{"zencode", "keys", "data"}}

OptionObjects ==
  UNION {{o \in [S -> AllInputs] : \A f \in S : o[f] \in InputOf(f)} : S \in OptionShapes}

NotSet == [t |-> "notset", v |-> ""]

\* --------------------------------------------------------------------- Init
\* the state when the module has been evaluated: line 352 has run __setup()
Constructed ==
  __setup([self |-> EmptySelf,
           C |-> [print |-> Undefined, exec_ok |-> Undefined, exec_error |-> Undefined],
           ffi |-> [count |-> 0, args |-> NoCall]])

Init ==
  LET w == Constructed
  IN  /\ self = w.self
      /\ C = w.C
      /\ ffi = w.ffi
      /\ pending = <<>>
      /\ invoked = NoEvent
      /\ lastOp = "construct"
      /\ resets = 0
      /\ lastCfg = "construct"
      /\ lastSet = [f \in Fields |-> NotSet]
      /\ lastOpt = EmptyObj
      /\ nExec = 0
      /\ returned = "nothing"
      /\ steps = 0

\* ------------------------------------------------------------------ actions
Apply(w) == /\ self' = w.self
            /\ C' = w.C
            /\ ffi' = w.ffi

\* the object the caller invokes the methods on: the module's export
Builder == "zenroom"

\* exec() and reset() that end without a return statement
ReturnOf_void(name, this) == IF name \in {"exec", "reset"} THEN "undefined" ELSE this

\* `return this`, the last statement of every public method
ReturnOf(name, this) == this

Op(name) == /\ steps < MaxSteps
            /\ steps' = steps + 1
            /\ returned' = ReturnOf(name, Builder)
            /\ lastOp' = name
            /\ resets' = IF name = "reset" THEN resets + 1 ELSE 0

\* an individual setter called by the caller
Setter(f, v, w) ==
  /\ Op(f)
  /\ Apply(w)
  /\ lastCfg' = "setter"
  /\ lastSet' = [lastSet EXCEPT ![f] = v]
  /\ invoked' = NoEvent
  /\ UNCHANGED <<pending, lastOpt, nExec>>

Call_zencode == \E v \in InputOf("zencode") : Setter("zencode", v, zencode(World, v))
Call_keys == \E v \in InputOf("keys") : Setter("keys", v, keys(World, v))
Call_conf == \E v \in InputOf("conf") : Setter("conf", v, conf(World, v))
Call_data == \E v \in InputOf("data") : Setter("data", v, data(World, v))
Call_print == \E v \in InputOf("print") : Setter("print", v, print(World, v))
Call_success == \E v \in InputOf("success") : Setter("success", v, success(World, v))
Call_error == \E v \in InputOf("error") : Setter("error", v, error(World, v))
Call_verbosity == \E v \in InputOf("verbosity") : Setter("verbosity", v, verbosity(World, v))

Call_exec ==
  /\ Op("exec")
  /\ Apply(exec(World))
  /\ nExec' = nExec + 1
  /\ pending' = Append(pending, [ok |-> C.exec_ok, err |-> C.exec_error, print |-> PrintTarget(World)])
  /\ UNCHANGED <<invoked, lastCfg, lastSet, lastOpt>>

Call_init ==
  \E o \in OptionObjects :
    /\ Op("init")
    /\ Apply(init(World, o))
    /\ lastCfg' = "init"
    /\ lastSet' = [f \in Fields |-> NotSet]
    /\ lastOpt' = [k \in (DOMAIN lastOpt) \cup (DOMAIN o) |->
                     IF k \in DOMAIN o THEN o[k] ELSE lastOpt[k]]
    /\ invoked' = NoEvent
    /\ UNCHANGED <<pending, nExec>>

Call_reset ==
  /\ Op("reset")
  /\ Apply(reset(World))
  /\ lastCfg' = "reset"
  /\ lastSet' = [f \in Fields |-> NotSet]
  /\ lastOpt' = EmptyObj
  /\ invoked' = NoEvent
  /\ UNCHANGED <<pending, nExec>>

\* the engine writes output of an execution in flight: it calls C.print
Engine_print ==
  /\ pending # <<>>
  /\ invoked' = [kind |-> "print", hook |-> PrintTarget(World), issued |-> Head(pending).print]
  /\ UNCHANGED <<self, C, ffi, pending, lastOp, resets, lastCfg, lastSet, lastOpt, nExec, returned, steps>>

\* the engine ends the oldest execution in flight with success: it calls C.exec_ok
Engine_exec_ok ==
  /\ pending # <<>>
  /\ invoked' = [kind |-> "success", hook |-> C.exec_ok, issued |-> Head(pending).ok]
  /\ pending' = Tail(pending)
  /\ UNCHANGED <<self, C, ffi, lastOp, resets, lastCfg, lastSet, lastOpt, nExec, returned, steps>>

\* ... or with failure: it calls C.exec_error
Engine_exec_error ==
  /\ pending # <<>>
  /\ invoked' = [kind |-> "error", hook |-> C.exec_error, issued |-> Head(pending).err]
  /\ pending' = Tail(pending)
  /\ UNCHANGED <<self, C, ffi, lastOp, resets, lastCfg, lastSet, lastOpt, nExec, returned, steps>>

Next ==
  \/ Call_zencode
  \/ Call_keys
  \/ Call_conf
  \/ Call_data
  \/ Call_print
  \/ Call_success
  \/ Call_error
  \/ Call_verbosity
  \/ Call_exec
  \/ Call_init
  \/ Call_reset
  \/ Engine_print
  \/ Engine_exec_ok
  \/ Engine_exec_error

Spec == Init /\ [][Next]_vars

\* ------------------------------------------------------------------- claims
\* the field a setter stores for argument v
StoredFor(f, v) == IF f = "keys" /\ v.t = "object" THEN Str(v.v) ELSE v

\* the documented default of each init option
DefaultOf(f) ==
  CASE f = "zencode" -> Str("")
    [] f \in {"keys", "conf", "data"} -> Null
    [] f = "print" -> ConsoleLog
    [] f \in {"success", "error"} -> Noop
    [] f = "verbosity" -> Num("1")

\* C1: after reset() no payload field holds a value, the three hooks and the
\* three registry slots are the defaults, and an engine event fired after the
\* reset runs the default hook: console output for print, the no-op for
\* success and failure.
C1_ResetRestoresDefaults ==
  lastCfg = "reset" =>
    /\ \A f \in PayloadFields : self[f] = Undefined
    /\ self.print = ConsoleLog /\ self.success = Noop /\ self.error = Noop
    /\ C.print = PrintWrapper /\ C.exec_ok = Noop /\ C.exec_error = Noop
    /\ (invoked.kind = "print" => invoked.hook = ConsoleLog)
    /\ (invoked.kind \in {"success", "error"} => invoked.hook = Noop)

\* an execution issued under the custom print hook p writes output after a reset
C1_Witness ==
  /\ lastCfg = "reset"
  /\ invoked.kind = "print"
  /\ invoked.issued = Fn("p")
  /\ invoked.hook = ConsoleLog

\* C2: at exec() every field set through its individual setter holds the
\* argument of the last call of that setter (keys: its serialized form), and
\* the five payload fields cross the boundary with that value.
C2_LastWriteWins ==
  lastOp = "exec" =>
    \A f \in Fields :
      lastSet[f] # NotSet =>
        /\ self[f] = StoredFor(f, lastSet[f])
        /\ f \in PayloadFields => ffi.args[f] = StoredFor(f, lastSet[f])

\* conf was set twice or another field after it, then exec() ran
C2_Witness ==
  /\ lastOp = "exec"
  /\ steps = MaxSteps
  /\ lastSet["conf"] = Str("umm")
  /\ ffi.args["conf"] = Str("umm")
  /\ \A f \in Fields \ {"conf"} : lastSet[f] = NotSet

\* C3: every argument of a foreign call is a value the caller set or the
\* field's documented default, never undefined.
C3_NoUndefinedCrosses ==
  ffi.count > 0 =>
    \A f \in PayloadFields :
      ffi.args[f] \in {StoredFor(f, v) : v \in InputOf(f)} \cup {DefaultOf(f)}

\* C4: init({}) then exec() dispatches the arguments, and leaves the hooks,
\* that reset() then exec() does.
C4_InitEmptyEqualsReset ==
  LET a == exec(init(World, EmptyObj))
      b == exec(reset(World))
  IN  /\ a.ffi.args = b.ffi.args
      /\ a.self.print = b.self.print
      /\ a.self.success = b.self.success
      /\ a.self.error = b.self.error
      /\ a.C = b.C

\* C5: the registry slots are the hooks of the current state: C.exec_ok is
\* self.success, C.exec_error is self.error, and a call of C.print runs
\* self.print.
C5_RegistryMirrorsState ==
  /\ C.exec_ok = self.success
  /\ C.exec_error = self.error
  /\ PrintTarget(World) = self.print

\* success(g) has just run and the slot already holds g
C5_Witness ==
  /\ lastOp = "success"
  /\ lastSet["success"] = Fn("g")
  /\ C.exec_ok = Fn("g")
  /\ pending # <<>>

\* C6: a completion event runs the hook configured last before the event, not
\* the one that was registered when its exec() was issued.
C6_CompletionRunsCurrentHook ==
  /\ invoked.kind = "success" =>
       /\ invoked.hook = self.success
       /\ lastSet["success"] # NotSet => invoked.hook = lastSet["success"]
  /\ invoked.kind = "error" =>
       /\ invoked.hook = self.error
       /\ lastSet["error"] # NotSet => invoked.hook = lastSet["error"]

\* hook f, exec(), hook g, then the completion of that execution runs g
C6_Witness ==
  /\ invoked.kind = "success"
  /\ invoked.issued = Fn("f")
  /\ invoked.hook = Fn("g")

\* C7: after init calls the options store holds, for each field, the value of
\* the last options object that had the field, fields absent from later
\* objects keep their value, and the state field is that value (keys:
\* serialized) when it is truthy.
C7_InitMergeKeepsEarlier ==
  lastCfg = "init" =>
    /\ self.options = lastOpt
    /\ \A f \in DOMAIN lastOpt :
         Truthy(lastOpt[f]) => self[f] = StoredFor(f, lastOpt[f])

\* init({zencode: 'A'}) and init({conf: 'umm'}) in either order
C7_Witness ==
  /\ lastCfg = "init"
  /\ DOMAIN self.options = {"zencode", "conf"}
  /\ self.zencode = Str("A")
  /\ self.conf = Str("umm")

\* C8: after init every field is what its setter stores for the value in the
\* options store when the store has the field, whatever the value, and for
\* the documented default only when the store has not.
C8_InitEqualsSetters ==
  lastCfg = "init" =>
    \A f \in Fields :
      self[f] = IF f \in DOMAIN self.options
                  THEN StoredFor(f, self.options[f])
                  ELSE DefaultOf(f)

\* C9: a reset() directly after a reset() changes nothing: self, its options
\* store, the registry and the foreign calls stay as the first reset left them.
C9_ResetIdempotent ==
  [][(resets >= 1 /\ resets' = resets + 1) => (self' = self /\ C' = C /\ ffi' = ffi)]_vars

\* two resets in a row after a configured state
C9_Witness ==
  /\ resets = 2
  /\ steps = 3
  /\ self = [EmptySelf EXCEPT !.print = ConsoleLog, !.success = Noop, !.error = Noop]

\* C10: the number of foreign calls issued is the number of exec() calls.
C10_OneCallPerExec == ffi.count = nExec

\* two executions, then a reset
C10_Witness ==
  /\ nExec = 2
  /\ ffi.count = 2
  /\ lastOp = "reset"

\* C11: the keys and data arguments of every foreign call are text or null: an
\* object given to keys() or data() crosses the boundary serialized, never as
\* the object itself.
C11_KeysDataCrossAsText ==
  ffi.count > 0 =>
    /\ ffi.args["keys"].t \in {"string", "null"}
    /\ ffi.args["data"].t \in {"string", "null"}

\* C12: exec() leaves self, its options store and the three registry slots as
\* they are, and an exec() that follows an exec() with no setter, init or
\* reset between them dispatches the same arguments.
C12_ExecChangesNothing ==
  [][nExec' = nExec + 1 =>
       /\ self' = self
       /\ C' = C
       /\ lastOp = "exec" => ffi'.args = ffi.args]_vars

\* zencode('A') and two exec() calls: the second dispatch is 'A' again
C12_Witness ==
  /\ nExec = 2
  /\ lastOp = "exec"
  /\ lastCfg = "setter"
  /\ self.zencode = Str("A")
  /\ ffi.args["zencode"] = Str("A")

\* C13: every public method can be called in every state, also while an
\* execution is in flight and directly after exec() or reset() (the model's
\* only limit is the number of calls it follows), and every call made on the
\* builder returns the builder.
C13_AlwaysCallableAndChainable ==
  /\ steps < MaxSteps =>
       /\ ENABLED Call_zencode
       /\ ENABLED Call_keys
       /\ ENABLED Call_conf
       /\ ENABLED Call_data
       /\ ENABLED Call_print
       /\ ENABLED Call_success
       /\ ENABLED Call_error
       /\ ENABLED Call_verbosity
       /\ ENABLED Call_init
       /\ ENABLED Call_exec
       /\ ENABLED Call_reset
  /\ lastOp # "construct" => returned = Builder

\* directly after an exec() that is still in flight every method is callable
C13_Witness ==
  /\ lastOp = "exec"
  /\ pending # <<>>
  /\ returned = Builder
  /\ steps < MaxSteps
  /\ ENABLED Call_exec
  /\ ENABLED Call_reset

\* C14: from any state reset() empties the options store: reset(), init({})
\* and exec() dispatch ('', null, null, null, 1) with the default hooks
\* registered, whatever earlier init calls had stored.
C14_ResetEmptiesStore ==
  LET r == reset(World)
      w == exec(init(r, EmptyObj))
  IN  /\ r.self.options = EmptyObj
      /\ w.self.options = EmptyObj
      /\ w.ffi.args = [zencode |-> Str(""), conf |-> Null, keys |-> Null,
                       data |-> Null, verbosity |-> Num("1")]
      /\ w.self.print = ConsoleLog /\ w.self.success = Noop /\ w.self.error = Noop
      /\ w.C = [print |-> PrintWrapper, exec_ok |-> Noop, exec_error |-> Noop]

\* a state whose store holds a script, keys, data and the success hook g
C14_Witness ==
  /\ lastCfg = "init"
  /\ DOMAIN self.options = {"zencode", "keys", "data", "success"}
  /\ self.options["zencode"] = Str("A")
  /\ self.options["success"] = Fn("g")
  /\ C.exec_ok = Fn("g")

\* C15: what init(options) leaves depends on the merged options store alone.
\* After every init each field is what its setter stores for the store's
\* value, or for the default when the store has no (truthy) value, and the
\* slots hold the hooks so chosen; and from any state an init leaves the
\* fields and slots it leaves from the state that has the same store and
\* nothing else set: what only an individual setter had set is gone.
C15_InitDependsOnStoreOnly ==
  /\ lastCfg = "init" =>
       /\ \A f \in Fields :
            self[f] = StoredFor(f, IF Truthy(Get(self.options, f))
                                     THEN self.options[f] ELSE DefaultOf(f))
       /\ C = [print |-> PrintWrapper, exec_ok |-> self.success, exec_error |-> self.error]
  /\ \A o \in {EmptyObj, [conf |-> Str("umm")], [success |-> Fn("f")]} :
       LET a == init(World, o)
           b == init([self |-> [EmptySelf EXCEPT !.options = self.options],
                      C |-> [print |-> Undefined, exec_ok |-> Undefined, exec_error |-> Undefined],
                      ffi |-> ffi], o)
       IN  a.self = b.self /\ a.C = b.C

\* init({success: f}), then success(g) and zencode('A') through the setters
C15_Witness ==
  /\ lastCfg = "setter"
  /\ self.options = [success |-> Fn("f")]
  /\ lastSet["success"] = Fn("g")
  /\ self.success = Fn("g")
  /\ lastSet["zencode"] = Str("A")
  /\ self.zencode = Str("A")

\* C16: a call of an individual setter changes its own field of self and, for
\* print, success and error, its own registry slot, and nothing else: not the
\* other fields, the other slots, the options store or the foreign calls; the
\* options store changes in init and reset only.
C16_SettersTouchOwnFieldOnly ==
  [][/\ (steps' = steps + 1 /\ lastOp' \in Fields) =>
          /\ \A f \in Fields \ {lastOp'} : self'[f] = self[f]
          /\ self'.options = self.options
          /\ lastOp' # "print" => C'.print = C.print
          /\ lastOp' # "success" => C'.exec_ok = C.exec_ok
          /\ lastOp' # "error" => C'.exec_error = C.exec_error
          /\ ffi' = ffi
     /\ self'.options # self.options => (steps' = steps + 1 /\ lastOp' \in {"init", "reset"})]_vars

\* conf() called when a script, a stored option and a custom hook are in place
C16_Witness ==
  /\ lastOp = "conf"
  /\ self.conf = Str("umm")
  /\ self.zencode = Str("A")
  /\ self.options = [success |-> Fn("f")]
  /\ C.exec_ok = Fn("f")

\* C17: after reset() self (with its empty options store) and the three
\* registry slots are what they are right after construction, so an exec()
\* then dispatches what an exec() on a freshly constructed module dispatches.
C17_ResetEqualsConstruction ==
  lastCfg = "reset" =>
    /\ self = Constructed.self
    /\ C = Constructed.C
    /\ exec(World).ffi.args = exec(Constructed).ffi.args

\* a reset after the script 'A' was configured and dispatched
C17_Witness ==
  /\ lastOp = "reset"
  /\ ffi.count = 1
  /\ ffi.args["zencode"] = Str("A")
  /\ self.zencode = Undefined

====
